---- MODULE Spec2Model ----
(***************************************************************************)
(* Nutanix PSO proposal builder.                                           *)
(*                                                                         *)
(* Client Orchestrator  : src/frontend/script.js (one page, one event loop)*)
(* Catalog Gateway and the two proxies : src/unnamed/part_000 (server.js)  *)
(*                                                                         *)
(* JavaScript runs each task to completion, so one action is the code a    *)
(* handler runs between two awaits.  Strings are TLA+ strings; the string  *)
(* functions of the code (trim, join, the Content-Disposition regular      *)
(* expression, replace, decodeURIComponent) are computed character by      *)
(* character.                                                              *)
(***************************************************************************)
EXTENDS Integers, Sequences, FiniteSets, TLC

(***************************************************************************)
(* Bounds of the model.                                                    *)
(***************************************************************************)
\* user clicks on the generate button in one behaviour
MaxClicks == 2
\* firings of one phase timer that are followed
MaxTicks == 2
\* times the DOMContentLoaded listener of script.js runs on one page
MaxInitRuns == 2

(***************************************************************************)
(* Strings.                                                                *)
(***************************************************************************)
CharAt(s, i) == SubSeq(s, i, i)

\* JavaScript  a || b  on strings: the empty string is falsy.
OrElse(a, b) == IF a = "" THEN b ELSE a

\* White space as String.prototype.trim sees it (the part of it used here).
IsSpace(c) == c \in {" ", "\t", "\n", "\r"}

RECURSIVE TrimStart(_)
TrimStart(s) ==
    IF s = "" THEN ""
    ELSE IF IsSpace(CharAt(s, 1)) THEN TrimStart(SubSeq(s, 2, Len(s)))
    ELSE s

RECURSIVE TrimEnd(_)
TrimEnd(s) ==
    IF s = "" THEN ""
    ELSE IF IsSpace(CharAt(s, Len(s))) THEN TrimEnd(SubSeq(s, 1, Len(s) - 1))
    ELSE s

Trim(s) == TrimEnd(TrimStart(s))

\* Array.prototype.join(sep) on a sequence of strings.
RECURSIVE Join(_, _)
Join(xs, sep) ==
    IF xs = <<>> THEN ""
    ELSE IF Len(xs) = 1 THEN xs[1]
    ELSE xs[1] \o sep \o Join(Tail(xs), sep)

UpperChars == "ABCDEFGHIJKLMNOPQRSTUVWXYZ"
LowerChars == "abcdefghijklmnopqrstuvwxyz"

\* One character, lower-cased (the i flag of the regular expressions).
ToLowerChar(c) ==
    IF \E i \in 1..26 : CharAt(UpperChars, i) = c
    THEN CharAt(LowerChars, CHOOSE i \in 1..26 : CharAt(UpperChars, i) = c)
    ELSE c

\* s has the literal lit (lower case) at position p, ignoring case.
MatchesAtI(s, p, lit) ==
    /\ p >= 1
    /\ p + Len(lit) - 1 <= Len(s)
    /\ \A k \in 1..Len(lit) : ToLowerChar(CharAt(s, p + k - 1)) = CharAt(lit, k)

(***************************************************************************)
(* Filename from the Content-Disposition header (script.js 193-198).       *)
(***************************************************************************)
\* Last index j >= from with no ";" in s[from..j]; from - 1 when s[from] is ";"
\* or past the end: the greedy class [^;]+ of the regular expression.
RECURSIVE RunEnd(_, _)
RunEnd(s, from) ==
    IF from > Len(s) \/ CharAt(s, from) = ";" THEN from - 1
    ELSE RunEnd(s, from + 1)

\* The regular expression /filename\*?=([^;]+)/i tried at position p:
\* the capture group, or "" when it does not match there.
CaptureAt(s, p) ==
    IF ~MatchesAtI(s, p, "filename") THEN ""
    ELSE LET q  == p + 8
             eq == IF CharAt(s, q) = "*" THEN q + 1 ELSE q
         IN  IF eq > Len(s) \/ CharAt(s, eq) # "=" THEN ""
             ELSE SubSeq(s, eq + 1, RunEnd(s, eq + 1))

\* cd.match(/filename\*?=([^;]+)/i)[1]: the capture at the leftmost position
\* where the expression matches, "" when it matches nowhere.
RECURSIVE MatchFrom(_, _)
MatchFrom(s, p) ==
    IF p > Len(s) THEN ""
    ELSE IF CaptureAt(s, p) # "" THEN CaptureAt(s, p)
    ELSE MatchFrom(s, p + 1)

FilenameMatch(cd) == MatchFrom(cd, 1)

\* s.replace(/UTF-8''/i, ''): the first occurrence, anywhere, is removed.
RECURSIVE RemoveFirstI(_, _, _)
RemoveFirstI(s, lit, p) ==
    IF p + Len(lit) - 1 > Len(s) THEN s
    ELSE IF MatchesAtI(s, p, lit)
         THEN SubSeq(s, 1, p - 1) \o SubSeq(s, p + Len(lit), Len(s))
    ELSE RemoveFirstI(s, lit, p + 1)

StripUtf8Prefix(s) == RemoveFirstI(s, "utf-8''", 1)

\* s.replace(/['"]/g, ''): every quote character is removed.
RECURSIVE StripQuotes(_)
StripQuotes(s) ==
    IF s = "" THEN ""
    ELSE IF CharAt(s, 1) \in {"'", "\""} THEN StripQuotes(SubSeq(s, 2, Len(s)))
    ELSE CharAt(s, 1) \o StripQuotes(SubSeq(s, 2, Len(s)))

HexDigits == "0123456789abcdef"
IsHex(c) == \E i \in 1..16 : CharAt(HexDigits, i) = ToLowerChar(c)
HexVal(c) == (CHOOSE i \in 1..16 : CharAt(HexDigits, i) = ToLowerChar(c)) - 1

\* The printable ASCII characters in code order: 32 (space) to 95 (_), and
\* 97 (a) to 126 (~).  Code 96 cannot be written in a string of this language.
AsciiLow  == " !\"#$%&'()*+,-./0123456789:;<=>?@ABCDEFGHIJKLMNOPQRSTUVWXYZ[\\]^_"
AsciiHigh == "abcdefghijklmnopqrstuvwxyz{|}~"

Decodable(code) == (32 <= code /\ code <= 95) \/ (97 <= code /\ code <= 126)
CharOfCode(code) ==
    IF code <= 95 THEN CharAt(AsciiLow, code - 31) ELSE CharAt(AsciiHigh, code - 96)

\* decodeURIComponent: [ok, val]; ok = FALSE is the URIError it throws on a
\* "%" that is not followed by two hexadecimal digits, and on an escaped byte
\* that starts no valid UTF-8 sequence.  Escapes of the printable ASCII
\* characters above are decoded; control characters, code 96 and multi-byte
\* sequences are not among the inputs drawn.
RECURSIVE DecodeURIComponent(_)
DecodeURIComponent(s) ==
    IF s = "" THEN [ok |-> TRUE, val |-> ""]
    ELSE IF CharAt(s, 1) # "%"
         THEN LET r == DecodeURIComponent(SubSeq(s, 2, Len(s)))
              IN  [ok |-> r.ok, val |-> IF r.ok THEN CharAt(s, 1) \o r.val ELSE ""]
    ELSE IF Len(s) < 3 \/ ~IsHex(CharAt(s, 2)) \/ ~IsHex(CharAt(s, 3))
         THEN [ok |-> FALSE, val |-> ""]
    ELSE LET code == 16 * HexVal(CharAt(s, 2)) + HexVal(CharAt(s, 3))
             r    == DecodeURIComponent(SubSeq(s, 4, Len(s)))
         IN  IF ~Decodable(code) THEN [ok |-> FALSE, val |-> ""]
             ELSE [ok |-> r.ok,
                   val |-> IF r.ok THEN CharOfCode(code) \o r.val ELSE ""]

DefaultFilename == "proposal.docx"

\* Lines 193-198: [ok, val]; ok = FALSE when decodeURIComponent throws.
DeriveFilename(cd) ==
    LET m == FilenameMatch(cd)
    IN  IF m = "" THEN [ok |-> TRUE, val |-> DefaultFilename]
        ELSE DecodeURIComponent(StripQuotes(StripUtf8Prefix(m)))

(***************************************************************************)
(* Payload construction (script.js 77-85, 113-151).                        *)
(***************************************************************************)
\* Lines 129-132.
ApiDeploymentUnderscore(rawDeployment) ==
    IF rawDeployment = "onsite" THEN "on-premise"
    ELSE OrElse(rawDeployment, "hybrid")
ApiDeployment(rawDeployment) ==
    IF rawDeployment = "onsite" THEN "on-premise"
    ELSE IF rawDeployment = "dark_site" THEN "dark-site"
    ELSE OrElse(rawDeployment, "hybrid")

IsChecked(cb) == cb.checked
NonEmpty(v) == v # ""

\* Lines 77-85.  group is the sequence of input[name="hwprov"] elements of the
\* group, in document order; a missing group element behaves as an empty group.
GetSelectedHardwareProviders(group) ==
    LET checked == SelectSeq(group, IsChecked)
        vals    == SelectSeq([i \in 1..Len(checked) |-> Trim(checked[i].value)], NonEmpty)
    IN  Join(vals, ", ")

\* Line 143.
HardwareChoiceNoDefault(group) == GetSelectedHardwareProviders(group)
HardwareChoice(group) == OrElse(GetSelectedHardwareProviders(group), "Nutanix")

\* Lines 137-151 (customer_name, industry, proposal_type and the two BOQ
\* fields are copied from their own form fields and read by nothing else).
BuildPayload(reqText, rawDeployment, group) ==
    [ deployment_type     |-> ApiDeployment(rawDeployment),
      hardware_choice     |-> HardwareChoice(group),
      requirements_text   |-> reqText,
      client_requirements |-> reqText ]

(***************************************************************************)
(* The page: state of src/frontend/script.js.                              *)
(***************************************************************************)
VARIABLES
    pso_init,      \* window.__pso_init
    initRuns,      \* runs of the DOMContentLoaded listener so far
    listeners,     \* click listeners registered on generateBtn
    clearListener, \* the click listener of hwprov_clear is registered
    domBtn,        \* the document has #generateBtn
    domProgress,   \* the document has #genProgressWrap, #genProgress, #genProgressLabel
    token,         \* localStorage 'access_token' ("" when absent)
    location,      \* window.location.href
    requirements,  \* #requirements_text value
    deployment,    \* #deployment_type value
    hwprov,        \* the input[name="hwprov"] elements: [value, checked]
    btnDisabled,   \* generateBtn.disabled
    btnLabel,      \* generateBtn.textContent
    wrapDisplay,   \* wrap.style.display
    labText,       \* lab.textContent
    barClass,      \* the classes of bar among ok, err
    clicks,        \* user clicks on generateBtn so far
    pending,       \* listeners of the current click event still to run
    calls,         \* one record per dispatched request: the handler's frame
    timers,        \* the setInterval timer of each dispatched request
    hideTimers,    \* pending setTimeout callbacks of doneProgress
    out            \* what the last step showed or sent: alerts, toasts,
                   \* warnings, redirects, requests, downloads, progress marks

pageVars == << pso_init, initRuns, listeners, clearListener, domBtn, domProgress,
               token, location >>
formVars == << requirements, deployment, hwprov >>
btnVars  == << btnDisabled, btnLabel >>
progVars == << wrapDisplay, labText, barClass, hideTimers >>
callVars == << clicks, pending, calls, timers >>

(***************************************************************************)
(* The server: state of src/unnamed/part_000 (server.js).                  *)
(***************************************************************************)
VARIABLES
    env,           \* process.env: GENERATE_URL, SUGGEST_URL
    reqs,          \* one record per request received: its handler and its reply
    rows           \* the rows of the catalog table in the backing store

srvVars == << env, reqs, rows >>

(***************************************************************************)
(* Inputs.                                                                 *)
(***************************************************************************)
Tokens == {"", "tok"}
ReqTexts == {"", " \t\n", "3-node cluster"}
DeploymentLabels == {"", "onsite", "dark_site", "remote", "hybrid", "Onsite"}
\* The hardware-provider options of the form, in document order.
HwOptions == << "Dell", "HPE", "Lenovo" >>
\* Statuses the generation endpoint answers with.
Statuses == {200, 401, 404, 500}
\* Content-Disposition values of a response ("" : the header is absent).
CDHeaders ==
    { "",
      "attachment",
      "attachment; filename=\"Proposal_X.docx\"",
      "attachment; filename=Proposal_Acme.docx",
      "attachment; filename=\"Proposal_X.docx\"; size=1024",
      "attachment; filename*=UTF-8''Proposal_X.docx",
      "attachment; FILENAME=\"Proposal_X.docx\"",
      "inline; filename='Proposal_X.docx'",
      "attachment; filename=\"Growth_100%.docx\"" }
\* n copies of s
RECURSIVE Repeat(_, _)
Repeat(s, n) == IF n = 0 THEN "" ELSE s \o Repeat(s, n - 1)

\* A body of 510 characters.
LongBody == Repeat("0123456789", 51)

\* Bodies of a non-success response.
Bodies == {"", "Internal Server Error", LongBody}

InitialLabel == "Generate Proposal"
Phases == << "Drafting sections...", "Calling AI agents...", "Formatting DOCX...",
             "Finalizing..." >>

LoginPage == "login.html"

\* What a step shows or sends.
Ev(kind, arg) == [ev |-> kind, arg |-> arg]
Alert(msg)    == Ev("alert", msg)
Toast(msg)    == Ev("toast", msg)
Redirect(url) == Ev("redirect", url)
Request(url)  == Ev("fetch", url)
Download(fn)  == Ev("download", fn)
MarkCompleted(label) == Ev("mark", "Completed")
Mark(label)   == Ev("mark", label)
Warn(msg)     == Ev("warn", msg)

ValidationPrompt == "Please enter client requirements before generating."
LoginPrompt      == "Please login to generate."
ExpiredNotice    == "Session expired or not logged in. Please login."
GenerateUrl      == "/api/generate_proposal"

(***************************************************************************)
(* Helpers of script.js.                                                   *)
(***************************************************************************)
\* Lines 13-18.
IsAuthedNotNull == token \in Tokens
IsAuthed == token # ""

\* resp.ok
IsOk(status) == 200 <= status /\ status <= 299

\* Lines 27-34, its condition.
Is401Forbidden(status) == status = 403
Is401(status) == status = 401

\* Lines 65-75 on the progress elements; the callback of setTimeout is HideTimeout.
DoneProgress(ok) ==
    /\ barClass' = IF domProgress THEN (IF ok THEN {"ok"} ELSE {"err"}) ELSE barClass
    /\ labText' = IF domProgress THEN (IF ok THEN "Completed" ELSE "Failed") ELSE labText
    /\ hideTimers' = hideTimers + 1
    /\ UNCHANGED wrapDisplay

\* Lines 56-61.
ShowProgress(msg) ==
    /\ wrapDisplay' = IF domProgress THEN "flex" ELSE wrapDisplay
    /\ labText' = IF domProgress THEN OrElse(msg, "Preparing...") ELSE labText
    /\ barClass' = IF domProgress THEN {} ELSE barClass
    /\ UNCHANGED hideTimers

\* Lines 216-218 on the button.
RestoreButtonLabelOnly(oldLabel) ==
    /\ btnLabel' = oldLabel
    /\ UNCHANGED btnDisabled
RestoreButton(oldLabel) ==
    /\ btnDisabled' = FALSE
    /\ btnLabel' = oldLabel

\* clearInterval(phaseTimer) of request i: the timer and its counter are gone.
ClearIntervalNoop(i) == timers
ClearInterval(i) == [timers EXCEPT ![i] = [active |-> FALSE, idx |-> 0]]

\* The frame of a handler that has returned.
DoneCall == [pc |-> "done", oldLabel |-> "", payload |-> BuildPayload("", "", << >>),
             auth |-> "", status |-> 0, cd |-> ""]

InFlight == {i \in 1..Len(calls) : calls[i].pc # "done"}

(***************************************************************************)
(* Initial state: the document is loaded, no script has run.               *)
(***************************************************************************)
PageInit ==
    /\ pso_init = FALSE
    /\ initRuns = 0
    /\ listeners = 0
    /\ clearListener = FALSE
    /\ domBtn \in BOOLEAN
    /\ domProgress \in BOOLEAN
    /\ token \in Tokens
    /\ location = "index.html"
    /\ requirements = ""
    /\ deployment = ""
    /\ hwprov = [i \in 1..Len(HwOptions) |-> [value |-> HwOptions[i], checked |-> FALSE]]
    /\ btnDisabled = FALSE
    /\ btnLabel = InitialLabel
    /\ wrapDisplay = "none"
    /\ labText = ""
    /\ barClass = {}
    /\ clicks = 0
    /\ pending = 0
    /\ calls = << >>
    /\ timers = << >>
    /\ hideTimers = 0
    /\ out = << >>

(***************************************************************************)
(* Lines 2-7, 88-101, 104, 223-227: the DOMContentLoaded listener.  Every  *)
(* copy of the script on the page runs it once, when the document is       *)
(* parsed, before the user can click.                                      *)
(***************************************************************************)
AlreadyInitializedNever == FALSE
AlreadyInitialized == pso_init

DOMContentLoaded ==
    /\ UNCHANGED srvVars
    /\ initRuns < MaxInitRuns
    /\ clicks = 0
    /\ initRuns' = initRuns + 1
    /\ IF AlreadyInitialized
       THEN /\ out' = << Warn("script already initialized") >>
            /\ UNCHANGED << pso_init, listeners, clearListener >>
       ELSE /\ pso_init' = TRUE
            /\ clearListener' = TRUE
            /\ IF ~domBtn
               THEN /\ out' = << Alert("generateBtn not found") >>
                    /\ UNCHANGED listeners
               ELSE /\ listeners' = listeners + 1
                    /\ out' = IF IsAuthed THEN << >>
                              ELSE << Toast("You are not logged in. Login to generate.") >>
    /\ UNCHANGED << domBtn, domProgress, token, location >>
    /\ UNCHANGED << formVars, btnVars, progVars, callVars >>

(***************************************************************************)
(* The form, edited by the user; lines 88-95 for the clear button.         *)
(***************************************************************************)
SetRequirements(v) ==
    /\ UNCHANGED srvVars
    /\ pending = 0
    /\ v # requirements
    /\ requirements' = v
    /\ out' = << >>
    /\ UNCHANGED << deployment, hwprov, pageVars, btnVars, progVars, callVars >>

SetDeployment(v) ==
    /\ UNCHANGED srvVars
    /\ pending = 0
    /\ v # deployment
    /\ deployment' = v
    /\ out' = << >>
    /\ UNCHANGED << requirements, hwprov, pageVars, btnVars, progVars, callVars >>

ToggleHwprov(i) ==
    /\ UNCHANGED srvVars
    /\ pending = 0
    /\ hwprov' = [hwprov EXCEPT ![i].checked = ~@]
    /\ out' = << >>
    /\ UNCHANGED << requirements, deployment, pageVars, btnVars, progVars, callVars >>

\* Lines 89-94.
HwprovClear ==
    /\ UNCHANGED srvVars
    /\ pending = 0
    /\ clearListener
    /\ \E i \in 1..Len(hwprov) : hwprov[i].checked
    /\ hwprov' = [i \in 1..Len(hwprov) |-> [hwprov[i] EXCEPT !.checked = FALSE]]
    /\ out' = << >>
    /\ UNCHANGED << requirements, deployment, pageVars, btnVars, progVars, callVars >>

\* Another page of the application (login, logout) writes the shared localStorage.
StorageChange(t) ==
    /\ UNCHANGED srvVars
    /\ pending = 0
    /\ t # token
    /\ token' = t
    /\ out' = << >>
    /\ UNCHANGED << pso_init, initRuns, listeners, clearListener, domBtn, domProgress,
                    location >>
    /\ UNCHANGED << formVars, btnVars, progVars, callVars >>

(***************************************************************************)
(* The click on generateBtn and the handler up to its first await          *)
(* (lines 104-173).                                                        *)
(***************************************************************************)
\* The browser dispatches a click only on an enabled button, and then runs
\* every registered listener, one after the other.
UserClick ==
    /\ UNCHANGED srvVars
    /\ domBtn
    /\ listeners > 0
    /\ pending = 0
    /\ ~btnDisabled
    /\ clicks < MaxClicks
    /\ clicks' = clicks + 1
    /\ pending' = listeners
    /\ out' = << >>
    /\ UNCHANGED << calls, timers, pageVars, formVars, btnVars, progVars >>

\* Line 123.
IsBlankNoTrim(reqText) == reqText = ""
IsBlank(reqText) == Trim(reqText) = ""

\* Lines 156-158.
DisableButtonLabelOnly ==
    /\ btnLabel' = "Generating..."
    /\ UNCHANGED btnDisabled
DisableButton ==
    /\ btnDisabled' = TRUE
    /\ btnLabel' = "Generating..."

\* Lines 19-22, 113-173: the frame of a dispatched request.
NewCall ==
    [ pc       |-> "fetch",
      oldLabel |-> btnLabel,
      payload  |-> BuildPayload(OrElse(requirements, ""), OrElse(deployment, ""), hwprov),
      auth     |-> IF token # "" THEN "Bearer " \o token ELSE "",
      status   |-> 0,
      cd       |-> "" ]

GenerateClickHandler ==
    /\ UNCHANGED srvVars
    /\ pending > 0
    /\ pending' = pending - 1
    /\ UNCHANGED << clicks, formVars,
                    pso_init, initRuns, listeners, clearListener, domBtn, domProgress, token >>
    /\ IF ~IsAuthed
       THEN /\ out' = << Toast(LoginPrompt), Redirect(LoginPage) >>
            /\ location' = LoginPage
            /\ UNCHANGED << calls, timers, btnVars, progVars >>
       ELSE IF IsBlank(OrElse(requirements, ""))
       THEN /\ out' = << Alert(ValidationPrompt) >>
            /\ UNCHANGED << location, calls, timers, btnVars, progVars >>
       ELSE /\ DisableButton
            /\ ShowProgress("Preparing content...")
            /\ calls' = Append(calls, NewCall)
            /\ timers' = Append(timers, [active |-> TRUE, idx |-> 0])
            /\ out' = << Request(GenerateUrl) >>
            /\ UNCHANGED location

(***************************************************************************)
(* The timers.                                                             *)
(***************************************************************************)
\* Lines 163-166: one firing of the interval of request i.
PhaseTick(i) ==
    /\ UNCHANGED srvVars
    /\ pending = 0
    /\ timers[i].active
    /\ timers[i].idx < MaxTicks
    /\ labText' = IF domProgress THEN Phases[(timers[i].idx % Len(Phases)) + 1] ELSE labText
    /\ timers' = [timers EXCEPT ![i].idx = @ + 1]
    /\ out' = << >>
    /\ UNCHANGED << wrapDisplay, barClass, hideTimers, clicks, pending, calls >>
    /\ UNCHANGED << pageVars, formVars, btnVars >>

\* Lines 71-74: the callback doneProgress scheduled.
HideTimeout ==
    /\ UNCHANGED srvVars
    /\ pending = 0
    /\ hideTimers > 0
    /\ hideTimers' = hideTimers - 1
    /\ wrapDisplay' = IF domProgress THEN "none" ELSE wrapDisplay
    /\ barClass' = IF domProgress THEN {} ELSE barClass
    /\ out' = << >>
    /\ UNCHANGED << labText, pageVars, formVars, btnVars, callVars >>

(***************************************************************************)
(* The handler after its awaits (lines 175-219).                           *)
(***************************************************************************)
\* text.slice(0, n)
Slice(text, n) == SubSeq(text, 1, IF Len(text) < n THEN Len(text) ELSE n)

BodySliceLen == 500

\* Line 187.
ApiErrorMessageWholeBody(status, text) ==
    "Generate API error " \o ToString(status) \o ": " \o text
ApiErrorMessage(status, text) ==
    "Generate API error " \o ToString(status) \o ": " \o Slice(text, BodySliceLen)

\* The handler of request i returns.
Return(i) == [calls EXCEPT ![i] = DoneCall]

\* Lines 211-219: catch and finally of request i, err.message being msg.
CatchFinally(i, msg) ==
    /\ DoneProgress(FALSE)
    /\ out' = << Mark("Failed"), Alert("Generate failed: " \o msg) >>
    /\ timers' = ClearInterval(i)
    /\ RestoreButton(calls[i].oldLabel)
    /\ calls' = Return(i)
    /\ UNCHANGED location

\* Lines 27-34 and 177-183, then finally (216-218): the response is a 401.
SessionExpired(i) ==
    /\ out' = << Toast(ExpiredNotice), Redirect(LoginPage), Mark("Failed") >>
    /\ location' = LoginPage
    /\ timers' = ClearInterval(i)
    /\ DoneProgress(FALSE)
    /\ RestoreButton(calls[i].oldLabel)
    /\ calls' = Return(i)

\* Lines 200-210, then finally: the file is saved under filename.
DeliverFile(i, filename) ==
    /\ DoneProgress(TRUE)
    /\ out' = << Download(filename), Mark("Completed"), Toast("Proposal downloaded") >>
    /\ timers' = ClearInterval(i)
    /\ RestoreButton(calls[i].oldLabel)
    /\ calls' = Return(i)
    /\ UNCHANGED location

\* Lines 169-190: fetch resolved with a response.
FetchResolve(i, status, cd) ==
    /\ UNCHANGED srvVars
    /\ pending = 0
    /\ calls[i].pc = "fetch"
    /\ IF Is401(status)
       THEN SessionExpired(i)
       ELSE IF ~IsOk(status)
       THEN /\ calls' = [calls EXCEPT ![i] =
                           [@ EXCEPT !.pc = "text", !.status = status, !.cd = cd]]
            /\ out' = << >>
            /\ UNCHANGED << timers, btnVars, progVars, location >>
       ELSE /\ labText' = IF domProgress THEN "Downloading..." ELSE labText
            /\ calls' = [calls EXCEPT ![i] =
                           [@ EXCEPT !.pc = "blob", !.status = status, !.cd = cd]]
            /\ out' = << >>
            /\ UNCHANGED << wrapDisplay, barClass, hideTimers, timers, btnVars, location >>
    /\ UNCHANGED << clicks, pending, formVars,
                    pso_init, initRuns, listeners, clearListener, domBtn, domProgress, token >>

\* Line 169: fetch rejected (network failure).
FetchReject(i) ==
    /\ UNCHANGED srvVars
    /\ pending = 0
    /\ calls[i].pc = "fetch"
    /\ CatchFinally(i, "Failed to fetch")
    /\ UNCHANGED << clicks, pending, formVars,
                    pso_init, initRuns, listeners, clearListener, domBtn, domProgress, token >>

\* Lines 186-187: resp.text() settled; text is '<no body>' when it rejected.
TextSettle(i, text) ==
    /\ UNCHANGED srvVars
    /\ pending = 0
    /\ calls[i].pc = "text"
    /\ CatchFinally(i, ApiErrorMessage(calls[i].status, text))
    /\ UNCHANGED << clicks, pending, formVars,
                    pso_init, initRuns, listeners, clearListener, domBtn, domProgress, token >>

\* Lines 191-210 and finally: resp.blob() resolved.
BlobResolve(i) ==
    /\ UNCHANGED srvVars
    /\ pending = 0
    /\ calls[i].pc = "blob"
    /\ LET f == DeriveFilename(calls[i].cd)
       IN  IF f.ok THEN DeliverFile(i, f.val)
           ELSE CatchFinally(i, "URI malformed")
    /\ UNCHANGED << clicks, pending, formVars,
                    pso_init, initRuns, listeners, clearListener, domBtn, domProgress, token >>

\* Line 191: resp.blob() rejected (the body could not be read).
BlobReject(i) ==
    /\ UNCHANGED srvVars
    /\ pending = 0
    /\ calls[i].pc = "blob"
    /\ CatchFinally(i, "Failed to fetch")
    /\ UNCHANGED << clicks, pending, formVars,
                    pso_init, initRuns, listeners, clearListener, domBtn, domProgress, token >>

(***************************************************************************)
(* The page as a whole; the server is not part of these behaviours.        *)
(***************************************************************************)
Undefined == "undefined"

ServerOff ==
    /\ env = [GENERATE_URL |-> Undefined, SUGGEST_URL |-> Undefined]
    /\ reqs = << >>
    /\ rows = << >>

Init == PageInit /\ ServerOff

vars == << pageVars, formVars, btnVars, progVars, callVars, out, srvVars >>

Next ==
    \/ DOMContentLoaded
    \/ \E v \in ReqTexts : SetRequirements(v)
    \/ \E t \in Tokens : StorageChange(t)
    \/ UserClick
    \/ GenerateClickHandler
    \/ \E i \in 1..Len(calls) : PhaseTick(i)
    \/ HideTimeout
    \/ \E i \in 1..Len(calls), status \in Statuses, cd \in CDHeaders :
          FetchResolve(i, status, cd)
    \/ \E i \in 1..Len(calls) : FetchReject(i)
    \/ \E i \in 1..Len(calls), text \in Bodies \cup {"<no body>"} : TextSettle(i, text)
    \/ \E i \in 1..Len(calls) : BlobResolve(i)
    \/ \E i \in 1..Len(calls) : BlobReject(i)

Spec == Init /\ [][Next]_vars

(***************************************************************************)
(* The page while the user fills the form and triggers generation, the     *)
(* network not answering: the behaviours that decide the payload.          *)
(***************************************************************************)
NextPayload ==
    \/ DOMContentLoaded
    \/ \E v \in ReqTexts : SetRequirements(v)
    \/ \E v \in DeploymentLabels : SetDeployment(v)
    \/ \E i \in 1..Len(HwOptions) : ToggleHwprov(i)
    \/ HwprovClear
    \/ UserClick
    \/ GenerateClickHandler

SpecPayload == Init /\ [][NextPayload]_vars

(***************************************************************************)
(* Properties of the page.                                                 *)
(***************************************************************************)
Shows(evs, e) == \E k \in 1..Len(evs) : evs[k] = e
Times(evs, e) == Cardinality({k \in 1..Len(evs) : evs[k] = e})
ShowsKind(evs, kind) == \E k \in 1..Len(evs) : evs[k].ev = kind

\* This step ran the click handler of generateBtn (one generation trigger).
Triggered == pending' = pending - 1
\* This step dispatched a request.
Dispatched == Len(calls') = Len(calls) + 1 \/ ShowsKind(out', "fetch")
\* The handler of request i returned in this step.
Settled(i) == calls[i].pc # "done" /\ calls'[i].pc = "done"

\* C1: whenever generation is triggered with requirements_text empty or
\* whitespace-only, no request is dispatched and a validation prompt is shown:
\* the prompt for the requirements when the client holds a session token, the
\* prompt to log in (the validation that comes first) when it holds none.
C1_BlankNeverDispatches ==
    [][ (Triggered /\ Trim(requirements) = "")
          => /\ ~Dispatched
             /\ calls' = calls
             /\ timers' = timers
             /\ token # "" => out' = << Alert(ValidationPrompt) >>
             /\ token = "" => Shows(out', Toast(LoginPrompt)) ]_vars

C1_Witness ==
    /\ requirements = " \t\n"
    /\ token # ""
    /\ out = << Alert(ValidationPrompt) >>
    /\ calls = << >>

\* C2: whenever generation is triggered while the client holds no session
\* token, the page redirects to the login surface, no request is dispatched,
\* the button is not disabled and no phase timer is started.
C2_UnauthenticatedRedirects ==
    [][ (Triggered /\ token = "")
          => /\ location' = LoginPage
             /\ Shows(out', Redirect(LoginPage))
             /\ ~Dispatched
             /\ calls' = calls
             /\ timers' = timers
             /\ ~btnDisabled' ]_vars

C2_Witness ==
    /\ token = ""
    /\ requirements = "3-node cluster"
    /\ location = LoginPage
    /\ Shows(out, Redirect(LoginPage))
    /\ calls = << >>
    /\ ~btnDisabled

\* C3: when the dispatched request returns status 401, the session-expiry
\* path (notification and redirect to login) fires exactly once for that
\* request, no download is triggered, and the button ends up enabled.
C3_ExpiryOnce ==
    [][ \A i \in 1..Len(calls) :
          (\E cd \in CDHeaders : FetchResolve(i, 401, cd))
            => /\ Times(out', Toast(ExpiredNotice)) = 1
               /\ Times(out', Redirect(LoginPage)) = 1
               /\ location' = LoginPage
               /\ ~ShowsKind(out', "download")
               /\ calls'[i].pc = "done"
               /\ ~btnDisabled'
               /\ btnLabel' = calls[i].oldLabel ]_vars

C3_Witness ==
    /\ Shows(out, Toast(ExpiredNotice))
    /\ location = LoginPage
    /\ Len(calls) = 1
    /\ calls[1].pc = "done"
    /\ ~btnDisabled

\* C4: in every reachable state at most one generation request of the page is
\* in flight.
C4_SingleInFlight == Cardinality(InFlight) <= 1

\* A second request is in flight after the first one settled.
C4_Witness ==
    /\ Len(calls) = 2
    /\ calls[1].pc = "done"
    /\ calls[2].pc = "fetch"
    /\ btnDisabled

\* C5: the button is disabled as long as a dispatched call has not settled,
\* and when the call settles (success, non-success status, 401, exception) the
\* button is enabled again with the label it had before dispatch.
C5_DisabledThenRestored ==
    [][ /\ InFlight' # {} => btnDisabled'
        /\ \A i \in 1..Len(calls) :
              Settled(i) => /\ ~btnDisabled'
                            /\ btnLabel' = calls[i].oldLabel
                            /\ btnLabel' = InitialLabel ]_vars

C5_Witness ==
    /\ Len(calls) = 1
    /\ calls[1].pc = "done"
    /\ Shows(out, Mark("Completed"))
    /\ ~btnDisabled
    /\ btnLabel = InitialLabel

\* C6: the phase timer of a request is cancelled on every way the call
\* settles: no timer of a settled request is running, and while no request is
\* in flight and none is dispatched the progress label does not change.
C6_TimerCancelled ==
    [][ /\ \A i \in 1..Len(calls') : calls'[i].pc = "done" => ~timers'[i].active
        /\ (InFlight = {} /\ calls' = calls) => labText' = labText ]_vars

\* The first request settled after its timer fired; the second one is in
\* flight and only its timer runs.
C6_Witness ==
    /\ Len(calls) = 2
    /\ calls[1].pc = "done"
    /\ ~timers[1].active
    /\ calls[2].pc # "done"
    /\ timers[2].active
    /\ timers[2].idx > 0
    /\ domProgress

\* C7: the deployment_type of the dispatched payload is on-premise for onsite,
\* dark-site for dark_site, hybrid for the empty label, and the label itself
\* for any other value.
C7_DeploymentMapping ==
    [][ Dispatched =>
          LET sent == calls'[Len(calls')].payload.deployment_type
          IN  /\ deployment = "onsite" => sent = "on-premise"
              /\ deployment = "dark_site" => sent = "dark-site"
              /\ deployment = "" => sent = "hybrid"
              /\ deployment \notin {"onsite", "dark_site", ""} => sent = deployment ]_vars

C7_Witness ==
    /\ deployment = "dark_site"
    /\ out = << Request(GenerateUrl) >>
    /\ calls[Len(calls)].payload.deployment_type = "dark-site"

\* The values of the checked options, in document order.
CheckedValues(group) ==
    LET checked == SelectSeq(group, IsChecked)
    IN  [i \in 1..Len(checked) |-> checked[i].value]

\* C8: the hardware_choice of the dispatched payload is the comma-joined
\* checked values, or exactly Nutanix when none are checked; it is never the
\* empty string.
C8_HardwareChoice ==
    [][ Dispatched =>
          LET sent == calls'[Len(calls')].payload.hardware_choice
          IN  /\ sent # ""
              /\ CheckedValues(hwprov) = << >> => sent = "Nutanix"
              /\ CheckedValues(hwprov) # << >> => sent = Join(CheckedValues(hwprov), ", ") ]_vars

C8_Witness ==
    /\ out = << Request(GenerateUrl) >>
    /\ hwprov[1].checked /\ ~hwprov[2].checked /\ hwprov[3].checked
    /\ calls[Len(calls)].payload.hardware_choice = "Dell, Lenovo"

\* The value of a header parameter as the claim reads it: a leading UTF-8''
\* and the quotes around the value removed.
WithoutUtf8Prefix(v) == IF MatchesAtI(v, 1, "utf-8''") THEN SubSeq(v, 8, Len(v)) ELSE v
Unquoted(v) ==
    IF Len(v) >= 2 /\ CharAt(v, 1) \in {"'", "\""} /\ CharAt(v, Len(v)) = CharAt(v, 1)
    THEN SubSeq(v, 2, Len(v) - 1)
    ELSE v
ParameterFilename(cd) == Unquoted(WithoutUtf8Prefix(FilenameMatch(cd)))

\* C9: on a successful response whose body was read, a download is triggered;
\* its filename is the value of the filename / filename* parameter of
\* Content-Disposition with a UTF-8'' prefix and the surrounding quotes
\* removed, and proposal.docx when the response has no Content-Disposition.
C9_FilenameFromHeader ==
    [][ \A i \in 1..Len(calls) :
          BlobResolve(i)
            => /\ ShowsKind(out', "download")
               /\ calls[i].cd = "" => Shows(out', Download(DefaultFilename))
               /\ FilenameMatch(calls[i].cd) # ""
                    => Shows(out', Download(ParameterFilename(calls[i].cd))) ]_vars

(***************************************************************************)
(* The proxies of server.js (lines 121-157).  A handler runs to its first  *)
(* await when the request is received; requests are handled independently. *)
(***************************************************************************)
\* requests received in one behaviour
MaxRequests == 2

\* Values of an environment variable: not set, set to nothing, set to a URL.
GenerateUrls == {Undefined, "", "http://generator:8000/generate"}
SuggestUrls  == {Undefined, "", "http://generator:8000/suggest"}
\* Request bodies, as the JSON text of the parsed value.
RequestBodies == {"{\"customer_name\":\"Acme\",\"requirements_text\":\"3-node cluster\"}"}
\* What the downstream endpoint answers ("" : the header is absent).
DownStatuses == {200, 404, 500}
DownContentTypes ==
    {"", "application/vnd.openxmlformats-officedocument.wordprocessingml.document"}
DownDispositions == {"", "attachment; filename=\"Proposal_X.docx\""}
DownBytes == {"PK..docx", "{\"detail\":\"template missing\"}"}
DownJson == {"{\"services\":[]}"}

\* process.env.X || null, then  if (!X)
NotConfiguredUndefinedOnly(v) == v = Undefined
NotConfigured(v) == v \in {Undefined, ""}

\* res.status(code).json({ error: msg })
JsonError(code, msg) ==
    [status |-> code, ctype |-> "application/json", cd |-> "",
     body |-> "{\"error\":\"" \o msg \o "\"}"]

NoReply == [status |-> 0, ctype |-> "", cd |-> "", body |-> ""]
NoDown  == [status |-> 0, ctype |-> "", cd |-> ""]

GenerateNotConfigured == "No generate endpoint configured on server (set GENERATE_URL in .env)"
SuggestNotConfigured  == "No suggest endpoint configured (set SUGGEST_URL)"

NewRequest(route, body) ==
    [route |-> route, body |-> body, pc |-> "received", sent |-> << >>,
     down |-> NoDown, res |-> NoReply]

\* Lines 121-128: POST /api/generate_proposal, to the await of fetch.
PostGenerateProposal(body) ==
    /\ Len(reqs) < MaxRequests
    /\ reqs' = Append(reqs,
          IF NotConfigured(env.GENERATE_URL)
          THEN [NewRequest("generate_proposal", body) EXCEPT
                  !.pc = "done", !.res = JsonError(501, GenerateNotConfigured)]
          ELSE [NewRequest("generate_proposal", body) EXCEPT
                  !.pc = "fetch",
                  !.sent = << [url |-> env.GENERATE_URL, body |-> body] >>])
    /\ UNCHANGED << env, rows, pageVars, formVars, btnVars, progVars, callVars, out >>

\* Line 128: the downstream call returned a response.
GenerateResponse(k, status, ctype, cd) ==
    /\ reqs[k].route = "generate_proposal"
    /\ reqs[k].pc = "fetch"
    /\ reqs' = [reqs EXCEPT ![k] =
                  [@ EXCEPT !.pc = "buffer",
                            !.down = [status |-> status, ctype |-> ctype, cd |-> cd]]]
    /\ UNCHANGED << env, rows, pageVars, formVars, btnVars, progVars, callVars, out >>

\* Lines 130-133: the reply built from the downstream response r and its body.
\* A header that r does not have reads as null; "" stands for it here, and
\* a header left at "" in the reply is not set.
RelayReplyFixedType(down, bytes) ==
    [status |-> down.status, ctype |-> "application/octet-stream",
     cd |-> "", body |-> bytes]
RelayReply(down, bytes) ==
    [status |-> down.status,
     ctype  |-> OrElse(down.ctype, "application/octet-stream"),
     cd     |-> IF down.cd # "" THEN down.cd ELSE "",
     body   |-> bytes]

\* Lines 129-133: the downstream body was read.
GenerateRelay(k, bytes) ==
    /\ reqs[k].route = "generate_proposal"
    /\ reqs[k].pc = "buffer"
    /\ reqs' = [reqs EXCEPT ![k] =
                  [@ EXCEPT !.pc = "done",
                            !.res = RelayReply(reqs[k].down, bytes)]]
    /\ UNCHANGED << env, rows, pageVars, formVars, btnVars, progVars, callVars, out >>

\* What fetch rejects with (the endpoint cannot be reached, the connection
\* times out) and what r.buffer() rejects with.
FetchFailures == {"ECONNREFUSED", "ETIMEDOUT"}
BufferFailures == {"Premature close"}
FailuresAt(pc) ==
    IF pc = "fetch" THEN FetchFailures
    ELSE IF pc = "buffer" THEN BufferFailures ELSE {}

\* Lines 134-137: the catch block; err is logged only.
GenerateCatchEcho(err) == JsonError(500, err)
GenerateCatch(err) == JsonError(500, "Failed to generate proposal")

\* Lines 128-129, 134-137: fetch or r.buffer() rejected with err.
GenerateFailure(k, err) ==
    /\ reqs[k].route = "generate_proposal"
    /\ reqs[k].pc \in {"fetch", "buffer"}
    /\ err \in FailuresAt(reqs[k].pc)
    /\ reqs' = [reqs EXCEPT ![k] =
                  [@ EXCEPT !.pc = "done", !.res = GenerateCatch(err)]]
    /\ UNCHANGED << env, rows, pageVars, formVars, btnVars, progVars, callVars, out >>

\* Lines 141-150: POST /api/suggest_services_ai_v2, to the await of fetch.  The
\* parsed body is passed to fetch as it is, which sends its string form.
PostSuggestServices(body) ==
    /\ Len(reqs) < MaxRequests
    /\ reqs' = Append(reqs,
          IF NotConfigured(env.SUGGEST_URL)
          THEN [NewRequest("suggest_services_ai_v2", body) EXCEPT
                  !.pc = "done", !.res = JsonError(501, SuggestNotConfigured)]
          ELSE [NewRequest("suggest_services_ai_v2", body) EXCEPT
                  !.pc = "fetch",
                  !.sent = << [url |-> env.SUGGEST_URL, body |-> "[object Object]"] >>])
    /\ UNCHANGED << env, rows, pageVars, formVars, btnVars, progVars, callVars, out >>

\* Line 150: the downstream call returned a response.
SuggestResponse(k, status) ==
    /\ reqs[k].route = "suggest_services_ai_v2"
    /\ reqs[k].pc = "fetch"
    /\ reqs' = [reqs EXCEPT ![k] =
                  [@ EXCEPT !.pc = "json",
                            !.down = [status |-> status, ctype |-> "", cd |-> ""]]]
    /\ UNCHANGED << env, rows, pageVars, formVars, btnVars, progVars, callVars, out >>

\* Lines 151-152: proxied.json() settled; j is null when it rejected.
SuggestRelay(k, j) ==
    /\ reqs[k].route = "suggest_services_ai_v2"
    /\ reqs[k].pc = "json"
    /\ reqs' = [reqs EXCEPT ![k] =
                  [@ EXCEPT !.pc = "done",
                            !.res = [status |-> reqs[k].down.status,
                                     ctype  |-> "application/json",
                                     cd     |-> "",
                                     body   |-> j]]]
    /\ UNCHANGED << env, rows, pageVars, formVars, btnVars, progVars, callVars, out >>

\* Lines 153-156: fetch rejected.
SuggestFailure(k) ==
    /\ reqs[k].route = "suggest_services_ai_v2"
    /\ reqs[k].pc = "fetch"
    /\ reqs' = [reqs EXCEPT ![k] =
                  [@ EXCEPT !.pc = "done", !.res = JsonError(500, "Suggest proxy failed")]]
    /\ UNCHANGED << env, rows, pageVars, formVars, btnVars, progVars, callVars, out >>

\* The server is started with its environment; no page is part of these
\* behaviours.
PageIdle ==
    /\ PageInit
    /\ domBtn
    /\ domProgress
    /\ token = ""

InitServer ==
    /\ PageIdle
    /\ env \in [GENERATE_URL : GenerateUrls, SUGGEST_URL : SuggestUrls]
    /\ reqs = << >>
    /\ rows = << >>

NextServer ==
    \/ \E body \in RequestBodies : PostGenerateProposal(body)
    \/ \E k \in 1..Len(reqs), status \in DownStatuses, ctype \in DownContentTypes,
          cd \in DownDispositions : GenerateResponse(k, status, ctype, cd)
    \/ \E k \in 1..Len(reqs), bytes \in DownBytes : GenerateRelay(k, bytes)
    \/ \E k \in 1..Len(reqs), err \in FetchFailures \cup BufferFailures :
          GenerateFailure(k, err)
    \/ \E body \in RequestBodies : PostSuggestServices(body)
    \/ \E k \in 1..Len(reqs), status \in DownStatuses : SuggestResponse(k, status)
    \/ \E k \in 1..Len(reqs), j \in DownJson \cup {"null"} : SuggestRelay(k, j)
    \/ \E k \in 1..Len(reqs) : SuggestFailure(k)

SpecServer == InitServer /\ [][NextServer]_vars

(***************************************************************************)
(* The catalog routes of server.js (lines 27-112) and the table they read. *)
(* A column value and a value of a reply are written as JSON text: null,   *)
(* a number, or a string in double quotes.                                 *)
(***************************************************************************)
\* rows in the table
MaxRows == 2

Null == "null"
JStr(s) == "\"" \o s \o "\""
JNum(n) == ToString(n)

\* JavaScript truthiness of a value: null, 0 and the empty string are falsy.
Truthy(v) == v \notin {Null, JNum(0), JStr("")}

\* a || b
Or(a, b) == IF Truthy(a) THEN a ELSE b

Columns ==
    {"category_name", "service_name", "positioning", "description",
     "price_man_day", "duration_days", "default_days"}

\* Rows the table may hold: a full row, a row whose category is the empty
\* string and whose optional columns are zero, empty or null, and a row
\* without category or service name.
StoreRows ==
    { [category_name |-> JStr("Assessment"), service_name |-> JStr("Health Check"),
       positioning |-> JStr("Quick review"), description |-> JStr("On-site review"),
       price_man_day |-> JNum(1500), duration_days |-> JNum(5), default_days |-> JNum(5)],
      [category_name |-> JStr(""), service_name |-> JStr("Workshop"),
       positioning |-> Null, description |-> JStr(""),
       price_man_day |-> JNum(0), duration_days |-> JNum(0), default_days |-> Null],
      [category_name |-> Null, service_name |-> Null,
       positioning |-> JStr("Lift and shift"), description |-> Null,
       price_man_day |-> JNum(900), duration_days |-> Null, default_days |-> JNum(0)] }

Tables == UNION { [1..n -> StoreRows] : n \in 0..MaxRows }

\* The category values of StoreRows in the ascending order of the store,
\* which puts null last.
CategoryOrder == << JStr(""), JStr("Assessment"), Null >>
CategoryRank(v) == CHOOSE i \in 1..Len(CategoryOrder) : CategoryOrder[i] = v

\* .order('category_name', { ascending: true }): rows of equal category keep
\* the order the table has them in.
RECURSIVE InsertByCategory(_, _)
InsertByCategory(sorted, r) ==
    IF sorted = << >> THEN << r >>
    ELSE IF CategoryRank(r.category_name) < CategoryRank(Head(sorted).category_name)
         THEN << r >> \o sorted
         ELSE << Head(sorted) >> \o InsertByCategory(Tail(sorted), r)

RECURSIVE OrderByCategory(_)
OrderByCategory(t) ==
    IF t = << >> THEN << >>
    ELSE InsertByCategory(OrderByCategory(SubSeq(t, 1, Len(t) - 1)), t[Len(t)])

\* .not(column, 'is', null)
NotNull(t, column) == SelectSeq(t, LAMBDA r : r[column] # Null)

\* .eq(column, text)
Eq(t, column, text) == SelectSeq(t, LAMBDA r : r[column] = JStr(text))

RECURSIVE ToLower(_)
ToLower(s) == IF s = "" THEN "" ELSE ToLowerChar(CharAt(s, 1)) \o ToLower(SubSeq(s, 2, Len(s)))

\* .ilike(column, pattern) for a pattern without wildcard: the same text, case
\* ignored.
ILike(t, column, pattern) ==
    SelectSeq(t, LAMBDA r : r[column] # Null /\ ToLower(r[column]) = ToLower(JStr(pattern)))

\* .limit(n)
Limit(t, n) == SubSeq(t, 1, IF Len(t) < n THEN Len(t) ELSE n)

\* .select(columns)
Project(t, columns) == [i \in 1..Len(t) |-> [c \in columns |-> t[i][c]]]

\* Array.from(new Set(xs)): each value once, in the order of first occurrence.
RECURSIVE Distinct(_)
Distinct(xs) ==
    IF xs = << >> THEN << >>
    ELSE LET init == Distinct(SubSeq(xs, 1, Len(xs) - 1))
             last == xs[Len(xs)]
         IN  IF \E i \in 1..Len(init) : init[i] = last THEN init
             ELSE Append(init, last)

\* (data || []).map(d => d[column]).filter(Boolean), then the Set.
DistinctTruthy(data, column) ==
    Distinct(SelectSeq([i \in 1..Len(data) |-> data[i][column]], Truthy))

\* Lines 42-50: one entry of services.
ServiceEntry(d) ==
    [category_name |-> Or(d.category_name, JStr("")),
     service_name  |-> Or(d.service_name, JStr("")),
     positioning   |-> Or(d.positioning, Null),
     description   |-> Or(d.description, Null),
     price_man_day |-> Or(d.price_man_day, Null),
     duration_days |-> Or(d.duration_days, Null),
     default_days  |-> Or(d.default_days, Null)]

\* res.json(value)
Json(value) == [status |-> 200, ctype |-> "application/json", cd |-> "", body |-> value]

\* Lines 36-39, 67, 84, 105: the store returned { error }.
SupabaseError == JsonError(500, "Supabase error")
\* Lines 52-55, 70-73, 87-90, 108-111: the catch blocks.
InternalError == JsonError(500, "Internal error")

\* What the store answers to the query of each route.
CatalogData(t) == Project(OrderByCategory(t), Columns)
CategoriesData(t) == Project(NotNull(t, "category_name"), {"category_name"})
ServicesData(t, category) ==
    Project(IF category # ""
            THEN Eq(NotNull(t, "service_name"), "category_name", category)
            ELSE NotNull(t, "service_name"),
            {"service_name", "category_name"})
ServiceDetailsData(t, svc) == Limit(ILike(t, "service_name", svc), 1)

\* What each route replies when the store returned data.
CatalogReply(data) ==
    Json([categories |-> DistinctTruthy(data, "category_name"),
          services   |-> [i \in 1..Len(data) |-> ServiceEntry(data[i])]])
CategoriesReply(data) == Json([categories |-> DistinctTruthy(data, "category_name")])
ServicesReply(data) == Json([services |-> DistinctTruthy(data, "service_name")])
ServiceDetailsReply(data) == IF Len(data) = 0 THEN Json(Null) ELSE Json(data[1])

\* Values of a query parameter: not given, given empty, given.
CategoryParams == {Undefined, "Assessment"}
ServiceNameParams == {Undefined, "", "health check"}
\* What a failing store reports, as an error result or as an exception.
StoreErrors == {"relation does not exist", "JWT expired"}
StoreExceptions == {"TypeError: fetch failed", "AbortError"}

\* if (!svc)
MissingNever(v) == FALSE
Missing(v) == v \in {Undefined, ""}

StoreQuery(columns) == << [from |-> "proposals", select |-> columns] >>

\* Lines 27-34: GET /api/catalog, to the await of the query.
GetCatalog ==
    /\ Len(reqs) < MaxRequests
    /\ reqs' = Append(reqs,
          [NewRequest("catalog", Undefined) EXCEPT
             !.pc = "query",
             !.sent = StoreQuery("category_name,service_name,positioning,description,price_man_day,duration_days,default_days")])
    /\ UNCHANGED << env, rows, pageVars, formVars, btnVars, progVars, callVars, out >>

\* Lines 59-65: GET /api/categories, to the await of the query.
GetCategories ==
    /\ Len(reqs) < MaxRequests
    /\ reqs' = Append(reqs,
          [NewRequest("categories", Undefined) EXCEPT
             !.pc = "query", !.sent = StoreQuery("category_name")])
    /\ UNCHANGED << env, rows, pageVars, formVars, btnVars, progVars, callVars, out >>

\* Lines 77-83: GET /api/services, to the await of the query.
GetServices(category) ==
    /\ Len(reqs) < MaxRequests
    /\ reqs' = Append(reqs,
          [NewRequest("services", IF category = Undefined THEN "" ELSE category) EXCEPT
             !.pc = "query", !.sent = StoreQuery("service_name,category_name")])
    /\ UNCHANGED << env, rows, pageVars, formVars, btnVars, progVars, callVars, out >>

\* Lines 94-103: GET /api/service_details, to the await of the query.
GetServiceDetails(svc) ==
    /\ Len(reqs) < MaxRequests
    /\ reqs' = Append(reqs,
          IF Missing(svc)
          THEN [NewRequest("service_details", svc) EXCEPT
                  !.pc = "done", !.res = JsonError(400, "service_name required")]
          ELSE [NewRequest("service_details", svc) EXCEPT
                  !.pc = "query", !.sent = StoreQuery("*")])
    /\ UNCHANGED << env, rows, pageVars, formVars, btnVars, progVars, callVars, out >>

\* Lines 41-51, 68-69, 85-86, 106-107: the store returned data.
StoreData(k) ==
    /\ reqs[k].pc = "query"
    /\ reqs' = [reqs EXCEPT ![k] =
          [@ EXCEPT !.pc = "done",
                    !.res = CASE reqs[k].route = "catalog" -> CatalogReply(CatalogData(rows))
                              [] reqs[k].route = "categories" ->
                                   CategoriesReply(CategoriesData(rows))
                              [] reqs[k].route = "services" ->
                                   ServicesReply(ServicesData(rows, reqs[k].body))
                              [] reqs[k].route = "service_details" ->
                                   ServiceDetailsReply(ServiceDetailsData(rows, reqs[k].body))]]
    /\ UNCHANGED << env, rows, pageVars, formVars, btnVars, progVars, callVars, out >>

\* Lines 36-39, 67, 84, 105: the store returned an error.
StoreError(k, error) ==
    /\ reqs[k].pc = "query"
    /\ reqs' = [reqs EXCEPT ![k] = [@ EXCEPT !.pc = "done", !.res = SupabaseError]]
    /\ UNCHANGED << env, rows, pageVars, formVars, btnVars, progVars, callVars, out >>

\* Lines 52-55, 70-73, 87-90, 108-111: the query threw.
StoreThrow(k, err) ==
    /\ reqs[k].pc = "query"
    /\ reqs' = [reqs EXCEPT ![k] = [@ EXCEPT !.pc = "done", !.res = InternalError]]
    /\ UNCHANGED << env, rows, pageVars, formVars, btnVars, progVars, callVars, out >>

InitCatalog ==
    /\ PageIdle
    /\ env = [GENERATE_URL |-> Undefined, SUGGEST_URL |-> Undefined]
    /\ reqs = << >>
    /\ rows \in Tables

NextCatalog ==
    \/ GetCatalog
    \/ GetCategories
    \/ \E category \in CategoryParams : GetServices(category)
    \/ \E svc \in ServiceNameParams : GetServiceDetails(svc)
    \/ \E k \in 1..Len(reqs) : StoreData(k)
    \/ \E k \in 1..Len(reqs), error \in StoreErrors : StoreError(k, error)
    \/ \E k \in 1..Len(reqs), err \in StoreExceptions : StoreThrow(k, err)

SpecCatalog == InitCatalog /\ [][NextCatalog]_vars

(***************************************************************************)
(* Properties of the server.                                               *)
(***************************************************************************)
\* The environment variable a proxy route reads.
RouteUrl(route) ==
    IF route = "generate_proposal" THEN env.GENERATE_URL ELSE env.SUGGEST_URL

IsJsonErrorBody(body) ==
    /\ Len(body) > 12
    /\ SubSeq(body, 1, 10) = "{\"error\":\""
    /\ SubSeq(body, Len(body) - 1, Len(body)) = "\"}"

\* C10: when no downstream endpoint is configured, POST /api/generate_proposal
\* and POST /api/suggest_services_ai_v2 respond with status 501 and a JSON
\* error body, and make no downstream call.
C10_NotConfigured501 ==
    \A k \in 1..Len(reqs) :
       (reqs[k].route \in {"generate_proposal", "suggest_services_ai_v2"}
          /\ RouteUrl(reqs[k].route) \in {Undefined, ""})
         => /\ reqs[k].pc = "done"
            /\ reqs[k].res.status = 501
            /\ reqs[k].res.ctype = "application/json"
            /\ IsJsonErrorBody(reqs[k].res.body)
            /\ reqs[k].sent = << >>

\* Both routes answered 501, one with the variable unset and one with it empty.
C10_Witness ==
    /\ env.GENERATE_URL = ""
    /\ env.SUGGEST_URL = Undefined
    /\ Len(reqs) = 2
    /\ reqs[1].route = "generate_proposal" /\ reqs[1].res.status = 501
    /\ reqs[2].route = "suggest_services_ai_v2" /\ reqs[2].res.status = 501

\* C11: when the downstream endpoint is configured and returns a response,
\* the reply of POST /api/generate_proposal has the downstream status
\* unchanged (every status, 4xx and 5xx included), the downstream body bytes,
\* the downstream Content-Type or application/octet-stream when there is
\* none, and a Content-Disposition exactly when the downstream response had
\* one, with the same value.
C11_RelayUnchanged ==
    [][ \A k \in 1..Len(reqs), bytes \in DownBytes :
          GenerateRelay(k, bytes)
            => /\ reqs'[k].pc = "done"
               /\ reqs'[k].res.status = reqs[k].down.status
               /\ reqs'[k].res.body = bytes
               /\ reqs[k].down.ctype # "" => reqs'[k].res.ctype = reqs[k].down.ctype
               /\ reqs[k].down.ctype = ""
                    => reqs'[k].res.ctype = "application/octet-stream"
               /\ reqs'[k].res.cd = reqs[k].down.cd ]_vars

\* A 500 without headers and a 200 with both headers were relayed.
C11_Witness ==
    /\ Len(reqs) = 2
    /\ reqs[1].pc = "done" /\ reqs[1].down.status = 500
    /\ reqs[1].down.ctype = "" /\ reqs[1].down.cd = ""
    /\ reqs[1].res.status = 500 /\ reqs[1].res.body \in DownBytes
    /\ reqs[1].res.ctype = "application/octet-stream" /\ reqs[1].res.cd = ""
    /\ reqs[2].pc = "done" /\ reqs[2].down.status = 200
    /\ reqs[2].down.cd # "" /\ reqs[2].res.cd = reqs[2].down.cd
    /\ reqs[2].down.ctype # "" /\ reqs[2].res.ctype = reqs[2].down.ctype
    /\ reqs[2].res.body = "PK..docx"

\* C12: whatever transport-level failure the downstream call ends with (the
\* endpoint is unreachable, the call times out, the body cannot be read),
\* POST /api/generate_proposal replies 500 with one fixed message, and a
\* request makes at most one downstream call: there is no retry.
C12_FailureIs500NoRetry ==
    [][ /\ \A k \in 1..Len(reqs), err \in FetchFailures \cup BufferFailures :
             GenerateFailure(k, err)
               => /\ reqs'[k].pc = "done"
                  /\ reqs'[k].res.status = 500
                  /\ reqs'[k].res.body = "{\"error\":\"Failed to generate proposal\"}"
                  /\ reqs'[k].sent = reqs[k].sent
        /\ \A k \in 1..Len(reqs') :
             reqs'[k].route = "generate_proposal" => Len(reqs'[k].sent) <= 1 ]_vars

\* One request failed while connecting and one while its body was read; each
\* made one downstream call and got the same reply.
C12_Witness ==
    /\ Len(reqs) = 2
    /\ reqs[1].pc = "done" /\ reqs[1].down.status = 0
    /\ reqs[2].pc = "done" /\ reqs[2].down.status = 200
    /\ Len(reqs[1].sent) = 1 /\ Len(reqs[2].sent) = 1
    /\ reqs[1].res.body = "{\"error\":\"Failed to generate proposal\"}"
    /\ reqs[2].res = reqs[1].res
    /\ reqs[1].res.status = 500
    /\ reqs[1].route = "generate_proposal" /\ reqs[2].route = "generate_proposal"

(***************************************************************************)
(* Properties of the catalog routes.                                       *)
(***************************************************************************)
CatalogRoutes == {"catalog", "categories", "services", "service_details"}

\* A request whose store query failed: the catalog routes answer 500 in no
\* other case.
StoreFaulted(k) ==
    /\ reqs[k].route \in CatalogRoutes
    /\ reqs[k].pc = "done"
    /\ reqs[k].res.status = 500

\* A request that was answered from the rows of the store.
Answered(k, route) ==
    /\ reqs[k].route = route
    /\ reqs[k].pc = "done"
    /\ reqs[k].res.status = 200

\* C13: for each of the four catalog operations, every fault of the backing
\* store, returned as an error result or thrown as an exception, yields one
\* and the same generic server-error response, whatever the fault was.
C13_OneGenericServerError ==
    \A j, k \in 1..Len(reqs) :
       (StoreFaulted(j) /\ StoreFaulted(k) /\ reqs[j].route = reqs[k].route)
         => reqs[j].res = reqs[k].res

\* The category names that the rows hold.
CategoryNamesOf(t) == { t[i].category_name : i \in 1..Len(t) }

\* C14: whatever rows the store holds, rows of the same category included,
\* GET /api/categories returns each distinct non-null category name exactly
\* once and no name that the rows do not have.
C14_DistinctNonNullCategories ==
    \A k \in 1..Len(reqs) :
       Answered(k, "categories")
         => LET cs == reqs[k].res.body.categories
            IN  /\ \A i, j \in 1..Len(cs) : cs[i] = cs[j] => i = j
                /\ \A i \in 1..Len(cs) : cs[i] \in CategoryNamesOf(rows)
                /\ \A name \in CategoryNamesOf(rows) \ {Null} :
                      \E i \in 1..Len(cs) : cs[i] = name

\* C15: GET /api/service_details without the service_name parameter is
\* answered 400 and the store is not queried.
C15_ServiceNameRequired ==
    \A k \in 1..Len(reqs) :
       (reqs[k].route = "service_details" /\ reqs[k].body = Undefined)
         => /\ reqs[k].pc = "done"
            /\ reqs[k].res.status = 400
            /\ reqs[k].sent = << >>

\* A request without the parameter was answered 400 and one with it was
\* answered from the store.
C15_Witness ==
    /\ Len(reqs) = 2
    /\ reqs[1].route = "service_details" /\ reqs[1].body = Undefined
    /\ reqs[1].res.status = 400 /\ reqs[1].sent = << >>
    /\ reqs[2].route = "service_details" /\ reqs[2].body = "health check"
    /\ reqs[2].res.status = 200 /\ Len(reqs[2].sent) = 1
    /\ rows # << >>

OptionalFields ==
    {"positioning", "description", "price_man_day", "duration_days", "default_days"}

\* C20: GET /api/catalog returns one service entry per row, in the
\* category-ascending order of the store; each optional field of an entry is
\* the value of the row whenever the row has one, the number 0 included, and
\* is null only when the row has none; the categories returned are the
\* distinct non-empty category names of the rows.
C20_CatalogKeepsValues ==
    \A k \in 1..Len(reqs) :
       Answered(k, "catalog")
         => LET services == reqs[k].res.body.services
                cs       == reqs[k].res.body.categories
                ordered  == OrderByCategory(rows)
            IN  /\ Len(services) = Len(rows)
                /\ \A i \in 1..Len(services), f \in OptionalFields :
                      /\ ordered[i][f] # Null => services[i][f] = ordered[i][f]
                      /\ services[i][f] = Null => ordered[i][f] = Null
                /\ \A i, j \in 1..Len(cs) : cs[i] = cs[j] => i = j
                /\ { cs[i] : i \in 1..Len(cs) }
                     = CategoryNamesOf(rows) \ {Null, JStr("")}

(***************************************************************************)
(* Further properties of the page.                                         *)
(***************************************************************************)
\* C16: a run of the client initialization after the first changes nothing
\* and is signalled by a warning, not an error; the click handler of the
\* generate button is registered at most once, so that one click dispatches
\* at most one request.
C16_InitializedOnce ==
    [][ /\ (pso_init /\ initRuns' = initRuns + 1)
             => /\ out' = << Warn("script already initialized") >>
                /\ UNCHANGED << pso_init, listeners, clearListener, domBtn,
                                domProgress, token, location >>
                /\ UNCHANGED << formVars, btnVars, progVars, callVars >>
        /\ listeners' <= 1
        /\ pending' <= 1
        /\ Len(calls') <= clicks' ]_vars

\* The initialization ran twice, then one click dispatched one request.
C16_Witness ==
    /\ initRuns >= 2
    /\ listeners = 1
    /\ clicks = 1
    /\ pending = 0
    /\ Len(calls) = 1
    /\ Shows(out, Request(GenerateUrl))

\* The first n characters of text, all of it when it is shorter.
FirstChars(text, n) == IF Len(text) <= n THEN text ELSE SubSeq(text, 1, n)

\* C17: a response with a non-success status other than 401 ends in a failure
\* the user sees: the error message carries the status and at most the first
\* 500 characters of the response body, the progress is marked failed, the
\* user is alerted and no download is triggered.
C17_NonSuccessFails ==
    [][ /\ \A i \in 1..Len(calls), status \in Statuses \ {200, 401} :
             (calls[i].pc = "fetch" /\ FetchResolve(i, status, calls'[i].cd))
               => /\ calls'[i].pc = "text"
                  /\ calls'[i].status = status
                  /\ ~ShowsKind(out', "download")
        /\ \A i \in 1..Len(calls), text \in Bodies \cup {"<no body>"} :
             (calls[i].pc = "text" /\ TextSettle(i, text))
               => /\ out' = << Mark("Failed"),
                               Alert("Generate failed: Generate API error "
                                     \o ToString(calls[i].status) \o ": "
                                     \o FirstChars(text, 500)) >>
                  /\ domProgress => labText' = "Failed" /\ barClass' = {"err"}
                  /\ calls'[i].pc = "done" ]_vars

\* A 500 whose body has more than 500 characters ended in the alert with the
\* first 500 of them.
C17_Witness ==
    /\ Len(calls) = 1
    /\ calls[1].pc = "done"
    /\ Shows(out, Mark("Failed"))
    /\ Shows(out, Alert("Generate failed: Generate API error 500: "
                          \o SubSeq(LongBody, 1, 500)))
    /\ labText = "Failed"

Marks(evs) == Times(evs, Mark("Completed")) + Times(evs, Mark("Failed"))

\* C18: every dispatched request ends with the progress marked exactly once,
\* Completed or Failed, and Completed exactly when a file download was
\* triggered: a 401, a non-success status and an exception before the
\* download all end Failed.
C18_MarkedOnce ==
    [][ /\ \A i \in 1..Len(calls) :
             Settled(i)
               => /\ Marks(out') = 1
                  /\ Shows(out', Mark("Completed")) <=> ShowsKind(out', "download")
                  /\ domProgress
                       => labText' = (IF ShowsKind(out', "download")
                                      THEN "Completed" ELSE "Failed")
        /\ ShowsKind(out', "mark") => \E i \in 1..Len(calls) : Settled(i)
        /\ ShowsKind(out', "download") => \E i \in 1..Len(calls) : Settled(i)
        /\ Cardinality({i \in 1..Len(calls) : Settled(i)}) <= 1 ]_vars

\* After one request ended Failed, a second one ended Completed with its
\* download.
C18_Witness ==
    /\ Len(calls) = 2
    /\ InFlight = {}
    /\ hideTimers = 2
    /\ Shows(out, Mark("Completed"))
    /\ ShowsKind(out, "download")
    /\ labText = "Completed"

\* C19: whatever generation actions and timer firings occur, the progress
\* indicator is visible from the dispatch of a request until that request
\* settles: the delayed hide scheduled when an earlier request finished never
\* hides the indicator while a later request is in flight.
C19_VisibleWhileInFlight ==
    (domProgress /\ InFlight # {}) => wrapDisplay = "flex"

====
